---------------------------- MODULE Spec2Model ----------------------------
(***************************************************************************)
(* The revenue dashboard script src/app.py as a state machine.             *)
(*                                                                         *)
(* One execution of the script is a run: load_data (behind st.cache_data), *)
(* the df.empty early exit, the sidebar multiselects, the filter, and the  *)
(* aggregates in the order the script computes them.  Streamlit re-runs    *)
(* the whole script on every interaction; the cache of load_data and the   *)
(* widgets' values survive from one run to the next.                       *)
(*                                                                         *)
(* Encoding of values.  A CSV cell is what the file holds: "" (string      *)
(* columns) or Blank (numeric columns) is an empty cell, a date cell is    *)
(* the tuple <<d, m, y, h>> of the text "d/m/y h:00".  A loaded value is   *)
(* what pandas holds: NA / NaN / NaT are the nulls, a Timestamp is the     *)
(* number yyyymmddhh, a date yyyymmdd, the Week string '%Y-%U' the number  *)
(* yyyyuu and the Month string 'YYYY-MM' the number yyyymm (each ordered   *)
(* as the strings are).  Revenue and duration are whole numbers; floating  *)
(* point rounding is not modelled.  Days_Since_Last_Login (line 21),       *)
(* Username and Total_Play_Sessions are only displayed and are left out.   *)
(***************************************************************************)
EXTENDS Integers, Sequences, FiniteSets, TLC

VARIABLES
    file,              \* data.csv on disk: [status, rows]
    cache,             \* st.cache_data's entry for load_data(): [hit, df]
    pc,                \* position of the current run in the script
    df,                \* line 24
    read_now,          \* whether this run's load_data call ran pd.read_csv
    touched,           \* whether the user has set the multiselects
    selected_country,  \* line 33
    selected_device,   \* line 34
    filtered_df,       \* line 36
    metrics,           \* lines 44-46: [users, revenue, avg]
    engagement,        \* lines 53-55: [dau, wau, mau]
    daily_revenue,     \* line 80
    breakdown,         \* lines 103-111: [device, tier, mode]
    top_10,            \* line 118
    last_run           \* history: what the previous completed run showed

vars == <<file, cache, pc, df, read_now, touched, selected_country,
          selected_device, filtered_df, metrics, engagement, daily_revenue,
          breakdown, top_10, last_run>>

----------------------------------------------------------------------------
(* Bounds of the model *)

\* Longest data.csv (rows under the header) drawn from a set of few rows.
MaxRows == 3

\* Longest data.csv drawn from a set of many rows, and in a session whose
\* source changes.
MaxWideRows == 2

\* How many rows more than head(10) keeps the long tables of InitTop have.
MaxExtra == 1

----------------------------------------------------------------------------
(* Nulls *)

\* An empty numeric cell of the CSV.
Blank == -1

\* pandas' missing float (numeric columns, User_ID, Week).
NaN == -1

\* pandas' missing Timestamp / date.
NaT == -1

\* pandas' missing value in a string column.
NA == "<NA>"

\* The string 'NaT': Period('NaT') rendered by astype(str).  As a string it
\* sorts after every 'YYYY-MM'.
NaTStr == 999999

\* head(10)
HeadN == 10

----------------------------------------------------------------------------
(* Calendar arithmetic of pd.to_datetime and the .dt accessors *)

IsLeap(y) == (y % 4 = 0 /\ y % 100 # 0) \/ y % 400 = 0

DaysInMonth(m, y) ==
    IF m = 2 THEN (IF IsLeap(y) THEN 29 ELSE 28)
    ELSE IF m \in {4, 6, 9, 11} THEN 30 ELSE 31

\* A date cell parses iff it is day/month/year hour of a real calendar day;
\* errors='coerce' turns everything else into NaT.
ToDatetime(cell) ==
    IF /\ Len(cell) = 4
       /\ cell[2] \in 1..12
       /\ cell[1] \in 1..DaysInMonth(cell[2], cell[3])
       /\ cell[4] \in 0..23
    THEN cell[3] * 1000000 + cell[2] * 10000 + cell[1] * 100 + cell[4]
    ELSE NaT

TsYear(ts) == ts \div 1000000
TsMonth(ts) == (ts \div 10000) % 100
TsDay(ts) == (ts \div 100) % 100

\* .dt.date: the calendar day of the Timestamp; NaT stays NaT.
DtDate(ts) == IF ts = NaT THEN NaT ELSE ts \div 100

RECURSIVE DaysBefore(_, _)
DaysBefore(m, y) ==
    IF m = 1 THEN 0 ELSE DaysBefore(m - 1, y) + DaysInMonth(m - 1, y)

\* Day of the year, from 0.
YDay(ts) == DaysBefore(TsMonth(ts), TsYear(ts)) + TsDay(ts) - 1

\* Weekday of 1 January, 0 = Sunday (Gauss).
Jan1Weekday(y) ==
    (1 + 5 * ((y - 1) % 4) + 4 * ((y - 1) % 100) + 6 * ((y - 1) % 400)) % 7

\* Weekday, 0 = Sunday.
WDay(ts) == (Jan1Weekday(TsYear(ts)) + YDay(ts)) % 7

\* .dt.strftime('%Y-%U'): week of the year, weeks starting on Sunday, the
\* days before the first Sunday in week 00.  NaT renders as NaN.
StrftimeYU(ts) ==
    IF ts = NaT THEN NaN
    ELSE TsYear(ts) * 100 + (YDay(ts) + 7 - WDay(ts)) \div 7

\* .dt.to_period('M').astype(str): 'YYYY-MM', and the string 'NaT' for NaT.
PeriodMonthStr(ts) ==
    IF ts = NaT THEN NaTStr ELSE TsYear(ts) * 100 + TsMonth(ts)

----------------------------------------------------------------------------
(* load_data *)

\* pd.read_csv: an empty cell loads as a null.
ReadStr(cell) == IF cell = "" THEN NA ELSE cell
ReadNum(cell) == IF cell = Blank THEN NaN ELSE cell

\* One row of data.csv to one row of the returned frame; i is the row's
\* index label (RangeIndex).
CleanRow(raw, i) ==
    LET signup == ToDatetime(raw.signup)
        login == ToDatetime(raw.login)
    IN [idx |-> i,
        User_ID |-> ReadNum(raw.uid),
        Country |-> ReadStr(raw.country),
        Device_Type |-> ReadStr(raw.device),
        Subscription_Tier |-> ReadStr(raw.tier),
        Preferred_Game_Mode |-> ReadStr(raw.mode),
        Signup_Date |-> signup,
        Last_Login |-> login,
        Login_Date |-> DtDate(login),
        Week |-> StrftimeYU(login),
        Month |-> PeriodMonthStr(login),
        Total_Revenue_USD |-> ReadNum(raw.rev),
        Avg_Session_Duration_Min |-> ReadNum(raw.dur)]

\* The body of load_data on a readable file.
CleanFrame(rows) == [i \in 1..Len(rows) |-> CleanRow(rows[i], i)]


----------------------------------------------------------------------------
(* Series and groupby helpers *)

Min(a, b) == IF a < b THEN a ELSE b

SetMin(S) == CHOOSE x \in S : \A y \in S : x <= y

SetMax(S) == CHOOSE x \in S : \A y \in S : x >= y

\* The values of a set of numbers in ascending order (groupby(sort=True),
\* sort_index).
RECURSIVE SortAsc(_)
SortAsc(S) ==
    IF S = {} THEN <<>> ELSE <<SetMin(S)>> \o SortAsc(S \ {SetMin(S)})

\* Column col of the rows as a set of values.
Column(rows, col) == {rows[i][col] : i \in 1..Len(rows)}

\* Series.dropna().unique(): the distinct non-null values.
DropnaUnique(rows, col, null) == Column(rows, col) \ {null}

\* Series.count() in the place of nunique(): every non-null value counts.
NuniqueAsCount(rows, col) == Len(SelectSeq(rows, LAMBDA r : r[col] # NaN))

\* Series.nunique(): the count of distinct values, nulls not counted.
Nunique(rows, col) == Cardinality(Column(rows, col) \ {NaN})

\* The rows whose column by holds key, in row order.
RowsOf(rows, by, key) == SelectSeq(rows, LAMBDA r : r[by] = key)

\* Series.sum(): nulls are skipped, the empty sum is 0.
RECURSIVE Sum(_, _)
Sum(rows, col) ==
    IF rows = <<>> THEN 0
    ELSE (IF Head(rows)[col] = NaN THEN 0 ELSE Head(rows)[col])
         + Sum(Tail(rows), col)

\* A mean that answers 0 when there is nothing to average.
MeanOrZero(rows, col) ==
    LET vals == SelectSeq(rows, LAMBDA r : r[col] # NaN)
    IN IF vals = <<>> THEN 0 ELSE (100 * Sum(vals, col)) \div Len(vals)

\* Series.mean() shown with two decimals, in hundredths: the mean of the
\* non-null values, NaN when there is none.
Mean(rows, col) ==
    LET vals == SelectSeq(rows, LAMBDA r : r[col] # NaN)
    IN IF vals = <<>> THEN NaN ELSE (100 * Sum(vals, col)) \div Len(vals)

\* The group keys of groupby(by): the default dropna=True leaves out the
\* rows whose key is null.
GroupKeys(rows, by, null) == Column(rows, by) \ {null}

\* groupby(by)['User_ID'].nunique().reset_index(): <<key, count>> per
\* group, keys ascending.
GroupNunique(rows, by) ==
    LET keys == SortAsc(GroupKeys(rows, by, NaN))
    IN [k \in 1..Len(keys) |->
           <<keys[k], Nunique(RowsOf(rows, by, keys[k]), "User_ID")>>]

\* groupby(by)['Total_Revenue_USD'].sum() for a string column: the Series
\* as the mapping key -> sum (the order of the keys is not modelled).
GroupSum(rows, by) ==
    [key \in GroupKeys(rows, by, NA) |->
        Sum(RowsOf(rows, by, key), "Total_Revenue_USD")]

\* The per-date sums left as they are: cumsum() forgotten.
NoCumSum(s) == s

\* Series.cumsum() of a sequence of <<key, value>>.
RECURSIVE CumSum(_)
CumSum(s) ==
    IF s = <<>> THEN <<>>
    ELSE LET init == CumSum(SubSeq(s, 1, Len(s) - 1))
             prev == IF init = <<>> THEN 0 ELSE init[Len(init)][2]
         IN Append(init, <<s[Len(s)][1], prev + s[Len(s)][2]>>)

\* Lines 78-81: dropna on Signup_Date, sum per Signup_Date, sort_index,
\* cumsum.
CumulativeRevenue(rows) ==
    LET kept == SelectSeq(rows, LAMBDA r : r.Signup_Date # NaT)
        keys == SortAsc(GroupKeys(kept, "Signup_Date", NaT))
    IN CumSum([k \in 1..Len(keys) |->
                 <<keys[k],
                   Sum(RowsOf(kept, "Signup_Date", keys[k]),
                       "Total_Revenue_USD")>>])

\* Every arrangement of a set of rows.
RECURSIVE Perms(_)
Perms(S) ==
    IF S = {} THEN {<<>>}
    ELSE UNION {{<<r>> \o p : p \in Perms(S \ {r})} : r \in S}

\* What an unstable descending sort may return for a set of rows: the
\* revenues descending, rows of equal revenue in any order.
RECURSIVE DescOrders(_)
DescOrders(S) ==
    IF S = {} THEN {<<>>}
    ELSE LET top == SetMax({r.Total_Revenue_USD : r \in S})
             tied == {r \in S : r.Total_Revenue_USD = top}
         IN UNION {{p \o q : q \in DescOrders(S \ tied)} : p \in Perms(tied)}

\* sort_values without ascending=False: the revenues ascending.
SortValuesAsc(rows) ==
    LET nulls == SelectSeq(rows, LAMBDA r : r.Total_Revenue_USD = NaN)
        rest == {rows[i] : i \in {j \in 1..Len(rows) :
                                    rows[j].Total_Revenue_USD # NaN}}
    IN {[i \in 1..Len(o) |-> o[Len(o) + 1 - i]] \o nulls :
           o \in DescOrders(rest)}

\* sort_values(by='Total_Revenue_USD', ascending=False): kind defaults to
\* 'quicksort', which pandas documents as not stable, so the order of tied
\* rows is any; na_position defaults to 'last' and keeps the null rows in
\* row order.  The set of frames the call may return.
SortValuesDesc(rows) ==
    LET nulls == SelectSeq(rows, LAMBDA r : r.Total_Revenue_USD = NaN)
        rest == {rows[i] : i \in {j \in 1..Len(rows) :
                                    rows[j].Total_Revenue_USD # NaN}}
    IN {o \o nulls : o \in DescOrders(rest)}

\* DataFrame.head(n)
HeadRows(rows, n) == SubSeq(rows, 1, Min(n, Len(rows)))

\* The two isin tests joined by | in the place of &.
FilterRowsEither(rows, countries, devices) ==
    SelectSeq(rows, LAMBDA r : r.Country \in countries
                               \/ r.Device_Type \in devices)

\* Line 36: the boolean mask of the two isin tests, applied to df.
FilterRows(rows, countries, devices) ==
    SelectSeq(rows, LAMBDA r : r.Country \in countries
                               /\ r.Device_Type \in devices)

\* Lines 33-34: the options (and the default) of a multiselect.
Options(rows, col) == DropnaUnique(rows, col, NA)

\* Monthly Active Users computed from the filtered view.
MauFromView(full, view) == view

\* The frame the Monthly Active Users chart is computed from (line 55).
MauSource(full, view) == full

\* The frame the cumulative revenue chart is computed from (line 78).
RevenueSource(full, view) == full

----------------------------------------------------------------------------
(* The script, section by section *)

\* What the variables of a run hold before the run has set them.
NoMetrics == [users |-> 0, revenue |-> 0, avg |-> NaN]
NoEngagement == [dau |-> <<>>, wau |-> <<>>, mau |-> <<>>]
NoBreakdown == [device |-> <<>>, tier |-> <<>>, mode |-> <<>>]
NoRun == [valid |-> FALSE, df |-> <<>>, shown |-> 0, mau |-> <<>>,
          daily_revenue |-> <<>>]

\* The sections a run has passed, in script order.
Order == <<"start", "sidebar", "filter", "metrics", "engagement", "revenue",
           "breakdown", "top", "done">>

Position(p) == CHOOSE i \in 1..Len(Order) : Order[i] = p

\* The run is past section p (p's own step has been taken).
Past(p) == pc \in {Order[i] : i \in (Position(p) + 1)..Len(Order)}

\* The run is over: completed, halted by st.stop(), or ended by an
\* exception out of load_data.
Idle == pc \in {"done", "stopped", "raised"}

\* A fresh execution of the script: its names are unbound again, the cache
\* and the widgets' values are kept.
NewRun ==
    /\ pc' = "start"
    /\ df' = <<>>
    /\ read_now' = FALSE
    /\ filtered_df' = <<>>
    /\ metrics' = NoMetrics
    /\ engagement' = NoEngagement
    /\ daily_revenue' = <<>>
    /\ breakdown' = NoBreakdown
    /\ top_10' = <<>>
    /\ last_run' = IF pc = "done"
                   THEN [valid |-> TRUE, df |-> df,
                         shown |-> Len(filtered_df),
                         mau |-> engagement.mau,
                         daily_revenue |-> daily_revenue]
                   ELSE last_run

\* load_data without its @st.cache_data decorator.
NoCache == FALSE

\* Whether st.cache_data answers the call without running load_data: the
\* key is the function and its (no) arguments.
CacheHit == cache.hit

\* Lines 12-28: load_data() through st.cache_data, then the df.empty exit.
\* pd.read_csv raises on a missing file (FileNotFoundError) and on a file
\* of zero bytes (EmptyDataError); nothing is cached then and the
\* exception ends the run.  A file with only its header loads as a frame
\* without rows.
LoadData ==
    /\ pc = "start"
    /\ IF CacheHit
       THEN /\ df' = cache.df
            /\ read_now' = FALSE
            /\ cache' = cache
            /\ pc' = IF Len(cache.df) = 0 THEN "stopped" ELSE "sidebar"
       ELSE IF file.status # "ok"
       THEN /\ df' = <<>>
            /\ read_now' = TRUE
            /\ cache' = cache
            /\ pc' = "raised"
       ELSE /\ df' = CleanFrame(file.rows)
            /\ read_now' = TRUE
            /\ cache' = [hit |-> TRUE, df |-> CleanFrame(file.rows)]
            /\ pc' = IF Len(file.rows) = 0 THEN "stopped" ELSE "sidebar"
    /\ UNCHANGED <<file, touched, selected_country, selected_device,
                   filtered_df, metrics, engagement, daily_revenue,
                   breakdown, top_10, last_run>>

\* Lines 31-34: the two multiselects return the user's choice, and their
\* default (every option) until the user has made one.
Sidebar ==
    /\ pc = "sidebar"
    /\ selected_country' = IF touched THEN selected_country
                           ELSE Options(df, "Country")
    /\ selected_device' = IF touched THEN selected_device
                          ELSE Options(df, "Device_Type")
    /\ pc' = "filter"
    /\ UNCHANGED <<file, cache, df, read_now, touched, filtered_df, metrics,
                   engagement, daily_revenue, breakdown, top_10, last_run>>

\* Lines 36-37
Filter ==
    /\ pc = "filter"
    /\ filtered_df' = FilterRows(df, selected_country, selected_device)
    /\ pc' = "metrics"
    /\ UNCHANGED <<file, cache, df, read_now, touched, selected_country,
                   selected_device, metrics, engagement, daily_revenue,
                   breakdown, top_10, last_run>>

\* Lines 44-46
KeyMetrics ==
    /\ pc = "metrics"
    /\ metrics' = [users |-> Nunique(filtered_df, "User_ID"),
                   revenue |-> Sum(filtered_df, "Total_Revenue_USD"),
                   avg |-> Mean(filtered_df, "Avg_Session_Duration_Min")]
    /\ pc' = "engagement"
    /\ UNCHANGED <<file, cache, df, read_now, touched, selected_country,
                   selected_device, filtered_df, engagement, daily_revenue,
                   breakdown, top_10, last_run>>

\* Lines 53-55
Engagement ==
    /\ pc = "engagement"
    /\ engagement' =
           [dau |-> GroupNunique(filtered_df, "Login_Date"),
            wau |-> GroupNunique(filtered_df, "Week"),
            mau |-> GroupNunique(MauSource(df, filtered_df), "Month")]
    /\ pc' = "revenue"
    /\ UNCHANGED <<file, cache, df, read_now, touched, selected_country,
                   selected_device, filtered_df, metrics, daily_revenue,
                   breakdown, top_10, last_run>>

\* Lines 78-81
RevenueTrend ==
    /\ pc = "revenue"
    /\ daily_revenue' = CumulativeRevenue(RevenueSource(df, filtered_df))
    /\ pc' = "breakdown"
    /\ UNCHANGED <<file, cache, df, read_now, touched, selected_country,
                   selected_device, filtered_df, metrics, engagement,
                   breakdown, top_10, last_run>>

\* Lines 102-112
Breakdown ==
    /\ pc = "breakdown"
    /\ breakdown' = [device |-> GroupSum(filtered_df, "Device_Type"),
                     tier |-> GroupSum(filtered_df, "Subscription_Tier"),
                     mode |-> GroupSum(filtered_df, "Preferred_Game_Mode")]
    /\ pc' = "top"
    /\ UNCHANGED <<file, cache, df, read_now, touched, selected_country,
                   selected_device, filtered_df, metrics, engagement,
                   daily_revenue, top_10, last_run>>

\* Lines 118-121: the run completes.
HighValue ==
    /\ pc = "top"
    /\ \E sorted \in SortValuesDesc(filtered_df) :
           top_10' = HeadRows(sorted, HeadN)
    /\ pc' = "done"
    /\ UNCHANGED <<file, cache, df, read_now, touched, selected_country,
                   selected_device, filtered_df, metrics, engagement,
                   daily_revenue, breakdown, last_run>>

\* The user changes a multiselect of the rendered sidebar: Streamlit keeps
\* the choice and re-runs the script.
ChangeFilter ==
    /\ pc = "done"
    /\ \E c \in SUBSET Options(df, "Country"),
          d \in SUBSET Options(df, "Device_Type") :
           /\ <<c, d>> # <<selected_country, selected_device>>
           /\ selected_country' = c
           /\ selected_device' = d
    /\ touched' = TRUE
    /\ NewRun
    /\ UNCHANGED <<file, cache>>

\* The user re-runs the script without touching a widget.
Rerun ==
    /\ Idle
    /\ NewRun
    /\ UNCHANGED <<file, cache, touched, selected_country, selected_device>>

----------------------------------------------------------------------------
(* The data.csv files the specifications start from *)

\* A row of data.csv with every cell filled and both dates valid.
BaseRow == [uid |-> 1, country |-> "US", device |-> "Mobile",
            tier |-> "Free", mode |-> "Solo", signup |-> <<5, 1, 2024, 0>>,
            login |-> <<6, 1, 2024, 10>>, rev |-> 1, dur |-> 3]

\* Every table of at most n rows drawn from the set rows.
Tables(rows, n) == UNION {[1..k -> rows] : k \in 0..n}

\* A readable data.csv holding the table t.
OkFile(t) == [status |-> "ok", rows |-> t]

\* Date cells: 6 Jan 2024 is a Saturday (week 00), 7 Jan the first Sunday
\* (week 01), 1 Feb is in another month; 31/02 is no calendar day and the
\* empty cell <<>> is no date.
LoginCells == {<<31, 2, 2024, 0>>, <<6, 1, 2024, 10>>, <<6, 1, 2024, 20>>,
               <<7, 1, 2024, 10>>, <<1, 2, 2024, 10>>}

SignupCells == {<<>>, <<5, 1, 2024, 0>>, <<3, 1, 2024, 0>>}

\* Rows that differ in the two filtered columns.
RowsByFilter ==
    {[BaseRow EXCEPT !.country = c, !.device = d] :
        c \in {"", "US", "FR"}, d \in {"", "Mobile"}}

\* Rows that differ in the user and the login date.
RowsByLogin ==
    {[BaseRow EXCEPT !.uid = u, !.login = l] :
        u \in {Blank, 1, 2}, l \in LoginCells}

\* Rows that differ in the signup date and the revenue.
RowsBySignup ==
    {[BaseRow EXCEPT !.signup = g, !.rev = v] :
        g \in SignupCells, v \in {Blank, 0, 2}}

\* Rows that differ in the segment columns and the revenue.
RowsBySegment ==
    {[BaseRow EXCEPT !.tier = t, !.mode = m, !.rev = v] :
        t \in {"", "Free", "Pro"}, m \in {"", "Solo"}, v \in {1, 2}}

\* Rows that differ in the revenue and the session duration.
RowsByRevenue ==
    {[BaseRow EXCEPT !.rev = v, !.dur = m] :
        v \in {Blank, 1, 2}, m \in {Blank, 3}}

\* Tables longer than head(10) keeps: n rows whose revenues follow the
\* pattern k: ascending, descending, equal in pairs, or the three lowest
\* equal (so that the cut of head(10) falls among equal revenues).
LongTable(n, k) ==
    [i \in 1..n |->
        [BaseRow EXCEPT !.uid = i,
                        !.rev = CASE k = 1 -> i
                                  [] k = 2 -> n - i
                                  [] k = 3 -> (i + 1) \div 2
                                  [] OTHER -> IF i < 4 THEN 1 ELSE 10 + i]]

LongTables ==
    {LongTable(n, k) : n \in (HeadN + 1)..(HeadN + MaxExtra), k \in 1..4}

\* The files of a session in which the source changes: two users in
\* different countries, on different devices, in different months.
RowsOfSession ==
    {BaseRow,
     [BaseRow EXCEPT !.uid = 2, !.country = "FR", !.device = "Desktop",
                     !.login = <<1, 2, 2024, 10>>,
                     !.signup = <<3, 1, 2024, 0>>, !.rev = 2]}

SessionFiles ==
    {[status |-> "missing", rows |-> <<>>], [status |-> "empty", rows |-> <<>>]}
    \cup {OkFile(t) : t \in Tables(RowsOfSession, MaxWideRows)}

\* data.csv is rewritten, removed or truncated between two runs (only
\* load_data reads it, so a change during a run is a change before the
\* next one).
SourceChange ==
    /\ Idle
    /\ \E f \in SessionFiles : f # file /\ file' = f
    /\ UNCHANGED <<cache, pc, df, read_now, touched, selected_country,
                   selected_device, filtered_df, metrics, engagement,
                   daily_revenue, breakdown, top_10, last_run>>

----------------------------------------------------------------------------
(* Specifications *)

\* The state of a new server process with data.csv = f.
InitWith(f) ==
    /\ file = f
    /\ cache = [hit |-> FALSE, df |-> <<>>]
    /\ pc = "start"
    /\ df = <<>>
    /\ read_now = FALSE
    /\ touched = FALSE
    /\ selected_country = {}
    /\ selected_device = {}
    /\ filtered_df = <<>>
    /\ metrics = NoMetrics
    /\ engagement = NoEngagement
    /\ daily_revenue = <<>>
    /\ breakdown = NoBreakdown
    /\ top_10 = <<>>
    /\ last_run = NoRun

\* One step of a run of the script.
Step ==
    \/ LoadData
    \/ Sidebar
    \/ Filter
    \/ KeyMetrics
    \/ Engagement
    \/ RevenueTrend
    \/ Breakdown
    \/ HighValue

\* A session over a data.csv that stays as it is.
NextStatic ==
    \/ Step
    \/ ChangeFilter
    \/ Rerun

\* A session in which data.csv may change.
Next ==
    \/ Step
    \/ ChangeFilter
    \/ Rerun
    \/ SourceChange

Init == \E f \in SessionFiles : InitWith(f)
Spec == Init /\ [][Next]_vars

InitFilter == \E t \in Tables(RowsByFilter, MaxRows) : InitWith(OkFile(t))
SpecFilter == InitFilter /\ [][NextStatic]_vars

InitLogin == \E t \in Tables(RowsByLogin, MaxWideRows) : InitWith(OkFile(t))
SpecLogin == InitLogin /\ [][NextStatic]_vars

InitSignup == \E t \in Tables(RowsBySignup, MaxRows) : InitWith(OkFile(t))
SpecSignup == InitSignup /\ [][NextStatic]_vars

InitSegment == \E t \in Tables(RowsBySegment, MaxWideRows) : InitWith(OkFile(t))
SpecSegment == InitSegment /\ [][NextStatic]_vars

InitTop ==
    \E t \in Tables(RowsByRevenue, MaxRows) \cup LongTables :
        InitWith(OkFile(t))
SpecTop == InitTop /\ [][NextStatic]_vars

----------------------------------------------------------------------------
(* Properties *)

\* The index labels of the rows of a frame.
Labels(rows) == {rows[i].idx : i \in 1..Len(rows)}

\* Row order is kept and no row is repeated.
InRowOrder(rows) ==
    \A j, k \in 1..Len(rows) : j < k => rows[j].idx < rows[k].idx

\* C1: the filtered view holds exactly the rows of df whose Country is in
\* the country selection and whose Device_Type is in the device selection,
\* each once and in row order; a row with a null Country or Device_Type is
\* in no view, and an empty selection gives the empty view.
C1_FilterIsConjunction ==
    Past("filter") =>
        /\ \A i \in 1..Len(df) :
               (\E j \in 1..Len(filtered_df) : filtered_df[j] = df[i])
               <=> (/\ df[i].Country \in selected_country
                    /\ df[i].Device_Type \in selected_device)
        /\ \A j \in 1..Len(filtered_df) :
               /\ \E i \in 1..Len(df) : df[i] = filtered_df[j]
               /\ filtered_df[j].Country # NA
               /\ filtered_df[j].Device_Type # NA
        /\ InRowOrder(filtered_df)
        /\ (selected_country = {} \/ selected_device = {})
               => filtered_df = <<>>

\* A view that keeps some rows and leaves out a row with a null Country
\* and a row of a country the user has deselected.
C1_Witness ==
    /\ Past("filter")
    /\ touched
    /\ filtered_df # <<>>
    /\ \E i \in 1..Len(df) : df[i].Country = NA
    /\ \E i \in 1..Len(df) :
           df[i].Country \notin selected_country \cup {NA}

\* C8: over a view without rows every aggregate of the view is computed
\* (the run completes) and is the identity of its operation: 0 users, 0
\* revenue, no bucket, no segment, no top user; the mean session duration
\* is NaN, no number.
C8_EmptyViewIdentities ==
    (Past("top") /\ filtered_df = <<>>) =>
        /\ metrics.users = 0
        /\ metrics.revenue = 0
        /\ metrics.avg = NaN
        /\ engagement.dau = <<>>
        /\ engagement.wau = <<>>
        /\ DOMAIN breakdown.device = {}
        /\ DOMAIN breakdown.tier = {}
        /\ DOMAIN breakdown.mode = {}
        /\ top_10 = <<>>

\* A completed run over a loaded table of which the filter keeps no row.
C8_Witness ==
    /\ pc = "done"
    /\ df # <<>>
    /\ filtered_df = <<>>
    /\ selected_country # {}

\* C2: Monthly Active Users and the cumulative revenue by signup date do
\* not depend on the country/device selection: a completed run shows the
\* same two outputs as the completed run before it over the same table,
\* whatever the two selections were.
C2_SelectionDoesNotReachUnfiltered ==
    (pc = "done" /\ last_run.valid /\ last_run.df = df) =>
        /\ engagement.mau = last_run.mau
        /\ daily_revenue = last_run.daily_revenue

\* Two completed runs over one table whose selections keep different
\* numbers of rows, the later one keeping a part of the table only.
C2_Witness ==
    /\ pc = "done"
    /\ last_run.valid
    /\ last_run.df = df
    /\ last_run.shown # Len(filtered_df)
    /\ filtered_df # <<>>
    /\ Len(filtered_df) < Len(df)
    /\ Len(engagement.mau) > 1
    /\ Len(daily_revenue) > 1

\* data.csv holds the table the cache holds.
SourceAsCached == file.status = "ok" /\ CleanFrame(file.rows) = cache.df

\* C3 as stated: a load reads data.csv exactly when there is no cached
\* table or the source is no longer the one the cached table was read
\* from (the cache is invalidated whenever the source has changed, and
\* only then).
C3_InvalidatedWheneverSourceChanges ==
    [][LoadData => (read_now' <=> ~(cache.hit /\ SourceAsCached))]_vars

\* C3 as the code has it: once load_data has returned a table, the cache
\* keeps that table for good and every later load returns it without
\* reading data.csv, whether or not data.csv has changed since; a load
\* reads data.csv only while no load has succeeded.
C3_CachedForGood ==
    [][/\ cache.hit => cache' = cache
       /\ LoadData => /\ read_now' <=> ~cache.hit
                      /\ cache.hit => df' = cache.df]_vars

\* A run served from the cache after data.csv has changed.
C3_Witness ==
    /\ Past("start")
    /\ cache.hit
    /\ ~read_now
    /\ ~SourceAsCached
    /\ last_run.valid

\* C4 as stated: load_data never raises, and a run goes past the load only
\* with a table that has rows; on an empty or unreadable source the run
\* halts at the df.empty exit.
C4_EmptySourceHaltsWithoutRaising ==
    /\ pc # "raised"
    /\ Past("start") => df # <<>>
    /\ (pc = "stopped") => df = <<>>

\* The revenues run downwards, the rows without a revenue last.
Descending(rows) ==
    \A j, k \in 1..Len(rows) :
        j < k =>
            \/ rows[k].Total_Revenue_USD = NaN
            \/ /\ rows[j].Total_Revenue_USD # NaN
               /\ rows[j].Total_Revenue_USD >= rows[k].Total_Revenue_USD

\* Rows of equal revenue stand in their original row order.
TiesInRowOrder(rows) ==
    \A j, k \in 1..Len(rows) :
        (j < k /\ rows[j].Total_Revenue_USD = rows[k].Total_Revenue_USD)
            => rows[j].idx < rows[k].idx

\* C5 as stated: the table of high-value users has min(10, |view|) rows,
\* by revenue descending, rows of equal revenue in their original row
\* order (a stable sort).
C5_TopTenStable ==
    pc = "done" =>
        /\ Len(top_10) = Min(HeadN, Len(filtered_df))
        /\ Descending(top_10)
        /\ TiesInRowOrder(top_10)

\* C5 as the code has it: the table has min(10, |view|) different rows of
\* the view, by revenue descending with the rows without a revenue last,
\* and no row left out has a higher revenue than a row shown; the order
\* among rows of equal revenue, and which of them are shown when the cut
\* falls among them, is not fixed by the row order.
C5_TopTenDescending ==
    pc = "done" =>
        /\ Len(top_10) = Min(HeadN, Len(filtered_df))
        /\ Descending(top_10)
        /\ \A j \in 1..Len(top_10) :
               \E i \in 1..Len(filtered_df) : filtered_df[i] = top_10[j]
        /\ \A j, k \in 1..Len(top_10) :
               j # k => top_10[j].idx # top_10[k].idx
        /\ \A i \in 1..Len(filtered_df) :
               filtered_df[i].idx \notin Labels(top_10)
                   => Descending(Append(top_10, filtered_df[i]))

\* A view of more than 10 rows whose top ten shows two rows of equal
\* revenue against their row order.
C5_Witness ==
    /\ pc = "done"
    /\ Len(filtered_df) > HeadN
    /\ Len(top_10) = HeadN
    /\ ~TiesInRowOrder(top_10)

\* The rows of a frame that come from a parsed Last_Login.
WithLogin(rows) == SelectSeq(rows, LAMBDA r : r.Last_Login # NaT)

\* C6 as stated: a row whose Last_Login did not parse has null Login_Date,
\* Week and Month, and every bucket of the Daily, Weekly and Monthly
\* Active Users holds a row whose Last_Login did parse.
C6_NullLoginInNoBucket ==
    Past("engagement") =>
        /\ \A i \in 1..Len(df) :
               df[i].Last_Login = NaT =>
                   /\ df[i].Login_Date = NaT
                   /\ df[i].Week = NaN
                   /\ df[i].Month \in {NaN, NaT}
        /\ \A e \in 1..Len(engagement.dau) :
               RowsOf(WithLogin(filtered_df), "Login_Date",
                      engagement.dau[e][1]) # <<>>
        /\ \A e \in 1..Len(engagement.wau) :
               RowsOf(WithLogin(filtered_df), "Week",
                      engagement.wau[e][1]) # <<>>
        /\ \A e \in 1..Len(engagement.mau) :
               RowsOf(WithLogin(df), "Month", engagement.mau[e][1]) # <<>>

\* The sum of the values of a mapping.
RECURSIVE Total(_)
Total(f) ==
    IF DOMAIN f = {} THEN 0
    ELSE LET k == CHOOSE x \in DOMAIN f : TRUE
         IN f[k] + Total([x \in DOMAIN f \ {k} |-> f[x]])

\* C7 as stated: each of the three breakdowns has one entry per distinct
\* value of its segment column in the view, the null value included, the
\* entry being the revenue of the rows with that value; so the entries of
\* each breakdown add up to the Total Revenue metric.
C7_SegmentsCoverRevenue ==
    Past("breakdown") =>
        /\ DOMAIN breakdown.device = Column(filtered_df, "Device_Type")
        /\ DOMAIN breakdown.tier = Column(filtered_df, "Subscription_Tier")
        /\ DOMAIN breakdown.mode = Column(filtered_df, "Preferred_Game_Mode")
        /\ Total(breakdown.device) = metrics.revenue
        /\ Total(breakdown.tier) = metrics.revenue
        /\ Total(breakdown.mode) = metrics.revenue

\* The users of a set of rows: the distinct non-null User_IDs.
Users(rows) == Column(rows, "User_ID") \ {NaN}

\* C9: every Daily and Weekly Active Users bucket counts the distinct
\* non-null User_IDs of the view's rows in the bucket, and no count is
\* above Total Users, the distinct non-null User_IDs of the view.
C9_BucketsCountDistinctUsers ==
    Past("engagement") =>
        /\ metrics.users = Cardinality(Users(filtered_df))
        /\ \A e \in 1..Len(engagement.dau) :
               /\ engagement.dau[e][2] = Cardinality(
                      Users(RowsOf(filtered_df, "Login_Date",
                                   engagement.dau[e][1])))
               /\ engagement.dau[e][2] <= metrics.users
        /\ \A e \in 1..Len(engagement.wau) :
               /\ engagement.wau[e][2] = Cardinality(
                      Users(RowsOf(filtered_df, "Week",
                                   engagement.wau[e][1])))
               /\ engagement.wau[e][2] <= metrics.users

\* A view with one user twice on one day, at different hours: a bucket of
\* two rows that counts one user.
C9_Witness ==
    /\ Past("engagement")
    /\ metrics.users = 1
    /\ \E e \in 1..Len(engagement.dau) :
           /\ engagement.dau[e][2] = 1
           /\ Len(RowsOf(filtered_df, "Login_Date",
                         engagement.dau[e][1])) = 2
           /\ filtered_df[1].Last_Login # filtered_df[2].Last_Login

\* The rows with a parsed Signup_Date.
WithSignup(rows) == SelectSeq(rows, LAMBDA r : r.Signup_Date # NaT)

\* C10: the cumulative revenue has one entry per Signup_Date of the table
\* that parsed, dates strictly ascending; each value is the revenue of the
\* rows signed up on or before its date, so the values never decrease
\* (revenues are not negative) and the last is the revenue of all rows
\* with a parsed Signup_Date.
C10_CumulativeRevenue ==
    Past("revenue") =>
        /\ {daily_revenue[e][1] : e \in 1..Len(daily_revenue)}
               = Column(WithSignup(df), "Signup_Date")
        /\ \A e \in 1..Len(daily_revenue) :
               daily_revenue[e][2] =
                   Sum(SelectSeq(WithSignup(df),
                                 LAMBDA r : r.Signup_Date
                                            <= daily_revenue[e][1]),
                       "Total_Revenue_USD")
        /\ \A e \in 1..(Len(daily_revenue) - 1) :
               /\ daily_revenue[e][1] < daily_revenue[e + 1][1]
               /\ daily_revenue[e][2] <= daily_revenue[e + 1][2]
        /\ daily_revenue # <<>> =>
               daily_revenue[Len(daily_revenue)][2]
                   = Sum(WithSignup(df), "Total_Revenue_USD")

\* A table in file order 5 Jan, 3 Jan with a third row whose Signup_Date
\* did not parse and whose revenue is in the Total Revenue metric but not
\* in the cumulative revenue.
C10_Witness ==
    /\ Past("revenue")
    /\ Len(daily_revenue) = 2
    /\ daily_revenue[1][2] < daily_revenue[2][2]
    /\ df[1].Signup_Date > df[2].Signup_Date
    /\ df[2].Signup_Date # NaT
    /\ \E i \in 1..Len(df) :
           df[i].Signup_Date = NaT /\ df[i].Total_Revenue_USD > 0
    /\ daily_revenue[2][2] < metrics.revenue

============================================================================
